---- MODULE Spec2Model ----
(***************************************************************************)
(* Model of src/main.py (Deep Inspector Pro): the /analyze handler          *)
(* analyze_logic with its helpers analyze_headers and get_dns_records.      *)
(*                                                                          *)
(* Text that the code takes apart (URLs, header names, hrefs) is a tuple of *)
(* one-character strings, so that startswith, lower and `in` are computed.  *)
(* Text that the code only passes along (titles, messages, WHOIS fields) is *)
(* a TLA+ string.                                                           *)
(***************************************************************************)
EXTENDS Integers, Sequences, FiniteSets, TLC

\* ------------------------------------------------------------------------
\* Bounds of the model
\* ------------------------------------------------------------------------

\* number of /analyze requests the multi-request specification runs
NumRequests == 2

\* pages checked exhaustively have up to MaxAnchors <a> elements
MaxAnchors == 3

\* hash seeds of the interpreter process are 0..MaxSeed
MaxSeed == 1

\* elapsed times (ttfb) the clock can report are 1..MaxElapsed (units of 10 ms)
MaxElapsed == 2

\* ------------------------------------------------------------------------
\* Python values
\* ------------------------------------------------------------------------

\* Python's None, where a text value is expected
None == "<None>"

\* str(v) of a text value or None
Str(v) == IF v = None THEN "None" ELSE v

\* truthiness of a text value or None: None and "" are false
Truthy(v) == v # None /\ v # ""

\* the empty dict {}
EmptyDict == [k \in {} |-> k]

\* ------------------------------------------------------------------------
\* str methods on character tuples
\* ------------------------------------------------------------------------

UpperToLower ==
  [A |-> "a", B |-> "b", C |-> "c", D |-> "d", E |-> "e", F |-> "f", G |-> "g",
   H |-> "h", I |-> "i", J |-> "j", K |-> "k", L |-> "l", M |-> "m", N |-> "n",
   O |-> "o", P |-> "p", Q |-> "q", R |-> "r", S |-> "s", T |-> "t", U |-> "u",
   V |-> "v", W |-> "w", X |-> "x", Y |-> "y", Z |-> "z"]

\* str.lower() of one character
LowerChar(c) == IF c \in DOMAIN UpperToLower THEN UpperToLower[c] ELSE c

\* str.lower()
Lower(s) == [i \in 1..Len(s) |-> LowerChar(s[i])]

\* s.startswith(p)
StartsWith(s, p) == Len(s) >= Len(p) /\ SubSeq(s, 1, Len(p)) = p

\* sub in s
Contains(s, sub) ==
  \E i \in 0..(Len(s) - Len(sub)) : SubSeq(s, i + 1, i + Len(sub)) = sub

\* s.find(c) as a 1-based index, 0 when c does not occur
Find(s, c) ==
  IF \E i \in 1..Len(s) : s[i] = c
  THEN CHOOSE i \in 1..Len(s) : s[i] = c /\ \A j \in 1..(i - 1) : s[j] # c
  ELSE 0

\* ------------------------------------------------------------------------
\* analyze_logic: URL normalization and parsing (lines 77-88)
\* ------------------------------------------------------------------------

HttpPrefix == <<"h","t","t","p",":","/","/">>
HttpsPrefix == <<"h","t","t","p","s",":","/","/">>

\* url.startswith(('http://', 'https://'))
HasHttpScheme(url) == StartsWith(url, HttpPrefix) \/ StartsWith(url, HttpsPrefix)

\* lines 78-81: target_url
TargetUrl(url) == IF ~HasHttpScheme(url) THEN HttpsPrefix \o url ELSE url

Letters == DOMAIN UpperToLower \cup {UpperToLower[c] : c \in DOMAIN UpperToLower}

\* urllib.parse.scheme_chars
SchemeChars ==
  Letters \cup {"0","1","2","3","4","5","6","7","8","9","+","-","."}

\* urlsplit: the text after a valid "scheme:" prefix, else the whole text
AfterScheme(u) ==
  LET i == Find(u, ":")
  IN  IF i > 1 /\ u[1] \in Letters /\ \A j \in 1..(i - 1) : u[j] \in SchemeChars
      THEN SubSeq(u, i + 1, Len(u))
      ELSE u

\* urllib.parse._splitnetloc(url, 2): the text between "//" and the first of / ? #
SplitNetloc(rest) ==
  LET stops == {i \in 3..Len(rest) : rest[i] \in {"/", "?", "#"}}
      delim == IF stops = {} THEN Len(rest) + 1
               ELSE CHOOSE i \in stops : \A j \in stops : i <= j
  IN  SubSeq(rest, 3, delim - 1)

\* urlparse(target_url): [raises, netloc]; an unmatched bracket in the netloc
\* raises ValueError("Invalid IPv6 URL")
UrlParse(u) ==
  LET rest == AfterScheme(u)
      netloc == IF StartsWith(rest, <<"/", "/">>) THEN SplitNetloc(rest) ELSE <<>>
      hasOpen == \E i \in 1..Len(netloc) : netloc[i] = "["
      hasClose == \E i \in 1..Len(netloc) : netloc[i] = "]"
  IN  [raises |-> hasOpen # hasClose, netloc |-> netloc]

ErrInvalidUrl == [error |-> "Invalid URL"]
ErrInvalidUrlFormat == [error |-> "Invalid URL format"]

\* lines 83-88, the mutant: the `if not domain` check left out
NormalizeStageNoHostCheck(url) ==
  LET target_url == TargetUrl(url)
      parsed == UrlParse(target_url)
  IN  IF parsed.raises
      THEN [returned |-> TRUE, result |-> ErrInvalidUrlFormat]
      ELSE [returned |-> FALSE,
            frame |-> [url |-> url, target_url |-> target_url,
                       domain |-> parsed.netloc]]

\* lines 77-88: [returned, result] on an early return, else [returned, frame]
NormalizeStage(url) ==
  LET target_url == TargetUrl(url)
      parsed == UrlParse(target_url)
  IN  IF parsed.raises
      THEN [returned |-> TRUE, result |-> ErrInvalidUrlFormat]
      ELSE IF parsed.netloc = <<>>
      THEN [returned |-> TRUE, result |-> ErrInvalidUrl]
      ELSE [returned |-> FALSE,
            frame |-> [url |-> url, target_url |-> target_url,
                       domain |-> parsed.netloc]]

\* ------------------------------------------------------------------------
\* analyze_headers (lines 56-74)
\* ------------------------------------------------------------------------

StrictTransportSecurity ==
  <<"S","t","r","i","c","t","-","T","r","a","n","s","p","o","r","t","-",
    "S","e","c","u","r","i","t","y">>
ContentSecurityPolicy ==
  <<"C","o","n","t","e","n","t","-","S","e","c","u","r","i","t","y","-",
    "P","o","l","i","c","y">>
XFrameOptions == <<"X","-","F","r","a","m","e","-","O","p","t","i","o","n","s">>
XContentTypeOptions ==
  <<"X","-","C","o","n","t","e","n","t","-","T","y","p","e","-",
    "O","p","t","i","o","n","s">>
ReferrerPolicy == <<"R","e","f","e","r","r","e","r","-","P","o","l","i","c","y">>

\* the keys of security_headers (lines 57-63)
SecurityHeaderNames ==
  {StrictTransportSecurity, ContentSecurityPolicy, XFrameOptions,
   XContentTypeOptions, ReferrerPolicy}

\* line 70, the mutant: the header names compared as written
HeaderKeyMatchesExact(h, k) == h = k

\* line 70: h.lower() == k.lower()
HeaderKeyMatches(h, k) == Lower(h) = Lower(k)

\* line 74, the mutant: the division truncated before the multiplication
PercentScoreTruncated(score, total) == (score \div total) * 100

\* line 74: int((score/total)*100). The doubles k/5*100 for k in 0..5 are
\* exactly 0.0, 20.0, 40.0, 60.0, 80.0, 100.0, so int() drops nothing and the
\* value is the integer quotient.
PercentScore(score, total) == (score * 100) \div total

\* analyze_headers(headers): headers is a dict, here a function on its keys
AnalyzeHeaders(headers) ==
  LET present == {h \in SecurityHeaderNames :
                    \E k \in DOMAIN headers : HeaderKeyMatches(h, k)}
      security_headers ==
        [h \in SecurityHeaderNames |->
           IF h \in present THEN "Present" ELSE "Missing"]
      score == Cardinality(present)
      total == Cardinality(SecurityHeaderNames)
  IN  [headers |-> security_headers, score |-> PercentScore(score, total)]

\* ------------------------------------------------------------------------
\* get_dns_records (lines 28-54)
\* ------------------------------------------------------------------------

RecordTypes == <<"MX", "NS", "A">>

\* line 29: records = {'MX': [], 'NS': [], 'A': []}
InitialRecords == [MX |-> <<>>, NS |-> <<>>, A |-> <<>>]

\* lines 36-49, the mutant: one try block around the three lookups, so that a
\* failed lookup skips the ones after it
AttemptedFirstFailureStops(answers) ==
  {i \in 1..Len(RecordTypes) :
     answers.resolver_ok
     /\ \A j \in 1..(i - 1) : answers.lookup[RecordTypes[j]].ok}

\* lines 32-49: the lookups that are attempted, as indexes into RecordTypes.
\* Each has its own try block; only a failure to build the resolver (line 32,
\* caught at line 51) skips them.
Attempted(answers) ==
  {i \in 1..Len(RecordTypes) : answers.resolver_ok}

\* get_dns_records(domain), given the resolver's answers
\* [resolver_ok, lookup: type -> [ok, records]]
GetDnsRecords(answers) ==
  [t \in DOMAIN InitialRecords |->
     IF \E i \in Attempted(answers) : RecordTypes[i] = t /\ answers.lookup[t].ok
     THEN answers.lookup[t].records
     ELSE InitialRecords[t]]

\* the resolver calls get_dns_records makes, in order
DnsCalls(answers) ==
  LET Pick(i) == IF i \in Attempted(answers)
                 THEN <<"resolve " \o RecordTypes[i]>> ELSE <<>>
  IN  <<"get_dns_records", "Resolver">> \o Pick(1) \o Pick(2) \o Pick(3)

\* ------------------------------------------------------------------------
\* analyze_logic: the page fetch and the extraction from the document
\* (lines 93-115)
\*
\* A fetch outcome is [ok |-> FALSE, exc] when requests.get raises, else
\* [ok |-> TRUE, status_code, headers, dom, elapsed], where dom is what
\* BeautifulSoup builds from response.text:
\*   [titles: the <title> elements, each [string |-> text or None],
\*    metas, anchors: the <meta> and <a> elements, each the dict of its
\*    attributes]
\* ------------------------------------------------------------------------

ServerName == <<"S","e","r","v","e","r">>

\* headers.get('Server', 'Unknown') on requests' case-insensitive dict
HeaderGet(headers, name, default) ==
  IF \E k \in DOMAIN headers : Lower(k) = Lower(name)
  THEN headers[CHOOSE k \in DOMAIN headers : Lower(k) = Lower(name)]
  ELSE default

\* line 111: the substrings that make a link a social link
SocialDomains ==
  {<<"f","a","c","e","b","o","o","k",".","c","o","m">>,
   <<"t","w","i","t","t","e","r",".","c","o","m">>,
   <<"l","i","n","k","e","d","i","n",".","c","o","m">>,
   <<"i","n","s","t","a","g","r","a","m",".","c","o","m">>,
   <<"g","i","t","h","u","b",".","c","o","m">>}

\* x in list
InList(x, list) == \E i \in 1..Len(list) : list[i] = x

\* lines 110-113, the mutant: the lower-cased href is what gets appended
SocialStepAppendsLower(socials, link) ==
  LET href == Lower(link.href)
  IN  IF (\E x \in SocialDomains : Contains(href, x)) /\ ~InList(href, socials)
      THEN Append(socials, href)
      ELSE socials

\* lines 110-113: one pass of the loop body over an <a href> element
SocialStep(socials, link) ==
  LET href == Lower(link.href)
  IN  IF (\E x \in SocialDomains : Contains(href, x)) /\ ~InList(href, socials)
      THEN Append(socials, link.href)
      ELSE socials

\* lines 108-113: the loop over soup.find_all('a', href=True)
RECURSIVE CollectSocials(_, _)
CollectSocials(anchors, socials) ==
  IF anchors = <<>> THEN socials
  ELSE CollectSocials(
         Tail(anchors),
         IF "href" \in DOMAIN Head(anchors)
         THEN SocialStep(socials, Head(anchors))
         ELSE socials)

\* line 104: soup.find('meta', attrs={'name': 'description'}), as a sequence
\* holding the first such element, or empty for None
FindMetaDescription(dom) ==
  LET hits == {i \in 1..Len(dom.metas) :
                 "name" \in DOMAIN dom.metas[i]
                 /\ dom.metas[i].name = "description"}
  IN  IF hits = {} THEN <<>>
      ELSE <<dom.metas[CHOOSE i \in hits : \A j \in hits : i <= j]>>

\* line 115: the error result of the except block
ConnectError(msg) == [error |-> "Could not connect: " \o msg]

\* lines 114-115, the mutant: the failure is swallowed and the run goes on with
\* placeholder values
FetchFailureSwallowed(f, exc) ==
  [returned |-> FALSE,
   frame |-> [ttfb |-> 0, status_code |-> 0, headers |-> EmptyDict,
               sec_headers |-> AnalyzeHeaders(EmptyDict).headers,
               sec_score |-> 0, title |-> "No Title",
               description |-> "No Description", socials |-> <<>>] @@ f]

\* lines 114-115: an exception of the try block ends the run
FetchFailure(f, exc) == [returned |-> TRUE, result |-> ConnectError(exc)]

\* lines 93-115: [returned, result] when the try block raises, else
\* [returned, frame] with the locals it binds
FetchStage(f, resp) ==
  IF ~resp.ok THEN FetchFailure(f, resp.exc)
  ELSE
    LET audit == AnalyzeHeaders(resp.headers)
        soup == resp.dom
        title == IF soup.titles # <<>> THEN soup.titles[1].string ELSE "No Title"
        meta_desc == FindMetaDescription(soup)
    IN  IF meta_desc # <<>> /\ "content" \notin DOMAIN meta_desc[1]
        THEN \* meta_desc['content'] raises KeyError('content')
             FetchFailure(f, "'content'")
        ELSE [returned |-> FALSE,
              frame |-> [ttfb |-> resp.elapsed,
                         status_code |-> resp.status_code,
                         headers |-> resp.headers,
                         sec_headers |-> audit.headers,
                         sec_score |-> audit.score,
                         title |-> title,
                         description |->
                           IF meta_desc # <<>> THEN meta_desc[1].content
                           ELSE "No Description",
                         socials |-> CollectSocials(soup.anchors, <<>>)] @@ f]

\* the calls the try block of lines 94-115 makes, in order
FetchCalls(resp) ==
  IF resp.ok THEN <<"requests.get", "analyze_headers", "BeautifulSoup">>
  ELSE <<"requests.get">>

\* ------------------------------------------------------------------------
\* analyze_logic: tech stack and WHOIS (lines 117-133)
\* ------------------------------------------------------------------------

\* lines 118-121; out is [ok |-> FALSE] when builtwith.parse raises, else
\* [ok |-> TRUE, value]
TechStage(out) == IF out.ok THEN out.value ELSE EmptyDict

\* line 133: the placeholder of a failed WHOIS lookup
WhoisHidden == [error |-> "Hidden"]

\* lines 124-133; out is [ok |-> FALSE] when whois.whois raises, else
\* [ok |-> TRUE, w] with w.creation_date either [list |-> TRUE, items] or
\* [list |-> FALSE, value]
WhoisStage(out) ==
  IF ~out.ok THEN WhoisHidden
  ELSE LET w == out.w
       IN  IF w.creation_date.list /\ w.creation_date.items = <<>>
           THEN \* w.creation_date[0] raises IndexError
                WhoisHidden
           ELSE [registrar |-> IF Truthy(w.registrar) THEN Str(w.registrar)
                               ELSE "Unknown",
                 org |-> IF Truthy(w.org) THEN Str(w.org) ELSE "Redacted",
                 creation_date |->
                   IF w.creation_date.list THEN Str(w.creation_date.items[1])
                   ELSE Str(w.creation_date.value),
                 country |-> IF Truthy(w.country) THEN Str(w.country)
                             ELSE "Unknown"]

\* ------------------------------------------------------------------------
\* analyze_logic: the report (lines 138-156)
\* ------------------------------------------------------------------------

\* line 146: the length above which the description is cut
DescriptionLimit == 100

\* line 155: the number of social links kept
SocialsLimit == 5

\* the distinct elements of a list, in order of first occurrence
RECURSIVE Distinct(_)
Distinct(list) ==
  IF list = <<>> THEN <<>>
  ELSE LET init == Distinct(SubSeq(list, 1, Len(list) - 1))
           last == list[Len(list)]
       IN  IF InList(last, init) THEN init ELSE Append(init, last)

Reverse(list) == [i \in 1..Len(list) |-> list[Len(list) + 1 - i]]

RotateLeft(list, k) ==
  [i \in 1..Len(list) |-> list[((i - 1 + k) % Len(list)) + 1]]

\* line 155: list(set(socials)). The elements are the distinct elements of
\* socials; their order is the iteration order of a set of str, which the
\* string hashes fix, and those depend on the hash seed of the interpreter
\* process (PYTHONHASHSEED, random by default). Each seed stands for one
\* order: an even seed rotates the elements, an odd one reverses them first.
SetToList(seed, socials) ==
  LET d == Distinct(socials)
  IN  IF d = <<>> THEN <<>>
      ELSE IF seed % 2 = 0 THEN RotateLeft(d, seed \div 2)
      ELSE RotateLeft(Reverse(d), seed \div 2)

\* list[:n]
Take(list, n) == SubSeq(list, 1, IF Len(list) < n THEN Len(list) ELSE n)

\* line 146
ShownDescription(description) ==
  IF Len(description) > DescriptionLimit
  THEN SubSeq(description, 1, DescriptionLimit) \o "..."
  ELSE description

\* line 155: list(set(socials))[:5]
ReportSocials(seed, socials) == Take(SetToList(seed, socials), SocialsLimit)

\* lines 138-156: the returned dict, from the locals f and the hash seed
Report(f, seed) ==
  [overview |-> [url |-> f.target_url,
                 domain |-> f.domain,
                 status |-> f.status_code,
                 ttfb_ms |-> f.ttfb,
                 server |-> HeaderGet(f.headers, ServerName, "Unknown"),
                 title |-> f.title,
                 description |-> ShownDescription(f.description)],
   tech |-> f.tech_stack,
   security |-> [score |-> f.sec_score, headers |-> f.sec_headers],
   dns |-> f.dns_data,
   whois |-> f.whois_data,
   socials |-> ReportSocials(seed, f.socials)]

\* ------------------------------------------------------------------------
\* The state
\* ------------------------------------------------------------------------

VARIABLES
  pc,        \* per request: where its run of analyze_logic stands
  frame,     \* per invocation: the local variables bound so far
  result,    \* per request: the value analyze_logic returned (empty: none yet)
  calls,     \* per request: the collaborator and helper calls made, in order
  env,       \* per request: the URL posted and the collaborators' answers
  hashseed,  \* the hash seed of the running interpreter process
  probeIn,   \* the argument of a helper that is checked on its own
  probeOut,  \* that helper's return value
  probeDone  \* whether the helper has been applied

vars == <<pc, frame, result, calls, env, hashseed, probeIn, probeOut, probeDone>>

Requests == 1..NumRequests
Seeds == 0..MaxSeed
Elapsed == 1..MaxElapsed

\* line 76, the mutant: the locals kept in one place shared by every invocation
\* (module-level variables)
SharedFrame(r) == 1

\* line 76 (and line 29 in get_dns_records): the locals of a call belong to
\* that call
FrameOf(r) == r

Bind(r, f) == [frame EXCEPT ![FrameOf(r)] = f]
Locals(r) == frame[FrameOf(r)]

\* analyze_route (lines 467-470) hands req.url to analyze_logic, which runs
\* lines 77-91
Begin(r, urls) ==
  /\ pc[r] = "idle"
  /\ \E url \in urls :
       LET st == NormalizeStage(url)
       IN  /\ env' = [env EXCEPT ![r] = [url |-> url]]
           /\ IF st.returned
              THEN /\ result' = [result EXCEPT ![r] = st.result]
                   /\ pc' = [pc EXCEPT ![r] = "done"]
                   /\ UNCHANGED frame
              ELSE /\ frame' = Bind(r, st.frame)
                   /\ pc' = [pc EXCEPT ![r] = "fetch"]
                   /\ UNCHANGED result
  /\ UNCHANGED <<calls, hashseed, probeIn, probeOut, probeDone>>

\* lines 93-115
Fetch(r, outcomes) ==
  /\ pc[r] = "fetch"
  /\ \E resp \in outcomes :
       LET st == FetchStage(Locals(r), resp)
       IN  /\ env' = [env EXCEPT ![r] =
                     [fetch |-> resp, fetch_url |-> Locals(r).target_url] @@ @]
           /\ calls' = [calls EXCEPT ![r] = @ \o FetchCalls(resp)]
           /\ IF st.returned
              THEN /\ result' = [result EXCEPT ![r] = st.result]
                   /\ pc' = [pc EXCEPT ![r] = "done"]
                   /\ UNCHANGED frame
              ELSE /\ frame' = Bind(r, st.frame)
                   /\ pc' = [pc EXCEPT ![r] = "tech"]
                   /\ UNCHANGED result
  /\ UNCHANGED <<hashseed, probeIn, probeOut, probeDone>>

\* line 119: builtwith.parse(target_url) is handed the URL only, neither the
\* html nor the headers already fetched at line 95, so the library downloads
\* the target page itself (urlopen) before it looks for technologies
TechCalls == <<"builtwith.parse", "urlopen">>

\* lines 117-121
Tech(r, outcomes) ==
  /\ pc[r] = "tech"
  /\ \E out \in outcomes :
       /\ env' = [env EXCEPT ![r] = [tech |-> out] @@ @]
       /\ frame' = Bind(r, [tech_stack |-> TechStage(out)] @@ Locals(r))
  /\ calls' = [calls EXCEPT ![r] = @ \o TechCalls]
  /\ pc' = [pc EXCEPT ![r] = "whois"]
  /\ UNCHANGED <<result, hashseed, probeIn, probeOut, probeDone>>

\* lines 123-133
Whois(r, outcomes) ==
  /\ pc[r] = "whois"
  /\ \E out \in outcomes :
       /\ env' = [env EXCEPT ![r] = [whois |-> out] @@ @]
       /\ frame' = Bind(r, [whois_data |-> WhoisStage(out)] @@ Locals(r))
  /\ calls' = [calls EXCEPT ![r] = Append(@, "whois.whois")]
  /\ pc' = [pc EXCEPT ![r] = "dns"]
  /\ UNCHANGED <<result, hashseed, probeIn, probeOut, probeDone>>

\* lines 135-156: get_dns_records, then the return of the report
Dns(r, outcomes) ==
  /\ pc[r] = "dns"
  /\ \E answers \in outcomes :
       LET f == [dns_data |-> GetDnsRecords(answers)] @@ Locals(r)
       IN  /\ env' = [env EXCEPT ![r] =
                     [dns |-> answers, hashseed |-> hashseed] @@ @]
           /\ frame' = Bind(r, f)
           /\ calls' = [calls EXCEPT ![r] = @ \o DnsCalls(answers)]
           /\ result' = [result EXCEPT ![r] = Report(f, hashseed)]
  /\ pc' = [pc EXCEPT ![r] = "done"]
  /\ UNCHANGED <<hashseed, probeIn, probeOut, probeDone>>

\* ------------------------------------------------------------------------
\* The inputs: URLs posted, and what the collaborators answer
\* ------------------------------------------------------------------------

\* URLs posted to /analyze: with and without a scheme, with and without a host
Urls ==
  {<<>>,                                           \* (empty)
   <<"a">>,                                        \* a
   <<"a","/">>,                                    \* a/
   <<"/","a">>,                                    \* /a
   <<"a","[">>,                                    \* a[
   <<"h","t","t","p",":","/","/">>,                \* http://
   <<"h","t","t","p",":","/","/","a">>,            \* http://a
   <<"h","t","t","p","s",":","/","/","a","/">>,    \* https://a/
   <<"f","t","p",":","/","/","a">>,                \* ftp://a
   <<"H","T","T","P",":","/","/","a">>}            \* HTTP://a

HeadersNone == EmptyDict

HeadersSome ==
  (ServerName :> "nginx")
  @@ (<<"x","-","f","r","a","m","e","-","o","p","t","i","o","n","s">> :> "DENY")
  @@ (StrictTransportSecurity :> "max-age=63072000")

HeadersAll ==
  (<<"s","e","r","v","e","r">> :> "Apache")
  @@ (StrictTransportSecurity :> "max-age=63072000")
  @@ (ContentSecurityPolicy :> "default-src 'self'")
  @@ (<<"X","-","F","R","A","M","E","-","O","P","T","I","O","N","S">> :> "DENY")
  @@ (XContentTypeOptions :> "nosniff")
  @@ (ReferrerPolicy :> "no-referrer")

LongDescription ==
  "ddddddddddddddddddddddddddddddddddddddddddddddddddddddddddddddddddddddddddddddddddddddddddddddddddddd"

\* href values of <a> elements
HrefAbout == <<"/","a","b","o","u","t">>
HrefGithub == <<"/","/","g","i","t","h","u","b",".","c","o","m","/","a">>
HrefGitHubMixed == <<"/","/","G","i","t","H","u","b",".","c","o","m","/","a">>
HrefGithubUpper == <<"/","/","G","I","T","H","U","B",".","c","o","m","/","a">>
HrefTwitter == <<"/","/","t","w","i","t","t","e","r",".","c","o","m","/","b">>

PagePlain ==
  [titles |-> <<[string |-> "Example Domain"]>>,
   metas |-> <<[name |-> "viewport", content |-> "width=device-width"],
               [name |-> "description", content |-> "An example page"]>>,
   anchors |-> <<[href |-> HrefAbout]>>]

PageBare ==
  [titles |-> <<>>, metas |-> <<>>, anchors |-> <<[name |-> "top"]>>]

PageSocial ==
  [titles |-> <<[string |-> None]>>,
   metas |-> <<[name |-> "description", content |-> LongDescription]>>,
   anchors |-> <<[href |-> HrefGitHubMixed], [href |-> HrefTwitter],
                 [href |-> HrefAbout], [href |-> HrefGithubUpper],
                 [href |-> HrefGithub], [href |-> HrefTwitter]>>]

\* <meta name="description"> without a content attribute
PageMetaNoContent ==
  [titles |-> <<[string |-> "Example Domain"]>>,
   metas |-> <<[name |-> "description"]>>,
   anchors |-> <<[href |-> HrefGithub]>>]

FetchFailures == {[ok |-> FALSE, exc |-> "Read timed out"]}

Response(status_code, headers, dom, elapsed) ==
  [ok |-> TRUE, status_code |-> status_code, headers |-> headers,
   dom |-> dom, elapsed |-> elapsed]

FetchOutcomes ==
  FetchFailures
  \cup {Response(200, h, d, e) :
          h \in {HeadersNone, HeadersSome, HeadersAll},
          d \in {PagePlain, PageBare, PageSocial, PageMetaNoContent},
          e \in Elapsed}
  \cup {Response(404, HeadersNone, PageBare, e) : e \in Elapsed}

TechOutcomes ==
  {[ok |-> FALSE],
   [ok |-> TRUE, value |-> [web_servers |-> <<"Nginx">>]]}

WhoisOutcomes ==
  {[ok |-> FALSE],
   [ok |-> TRUE,
    w |-> [registrar |-> "Example Registrar", org |-> "Example Org",
           creation_date |-> [list |-> FALSE, value |-> "1995-08-14"],
           country |-> "US"]],
   [ok |-> TRUE,
    w |-> [registrar |-> None, org |-> "", 
           creation_date |-> [list |-> TRUE,
                              items |-> <<"1995-08-14", "1995-08-15">>],
           country |-> None]],
   [ok |-> TRUE,
    w |-> [registrar |-> None, org |-> None,
           creation_date |-> [list |-> FALSE, value |-> None],
           country |-> None]],
   [ok |-> TRUE,
    w |-> [registrar |-> "Example Registrar", org |-> None,
           creation_date |-> [list |-> TRUE, items |-> <<>>],
           country |-> "US"]]}

LookupFailed == [ok |-> FALSE]
LookupFound(records) == [ok |-> TRUE, records |-> records]

DnsAnswers(mx, ns, a) ==
  [resolver_ok |-> TRUE, lookup |-> [MX |-> mx, NS |-> ns, A |-> a]]

DnsOutcomes ==
  {[resolver_ok |-> FALSE,
    lookup |-> [MX |-> LookupFailed, NS |-> LookupFailed, A |-> LookupFailed]]}
  \cup {DnsAnswers(mx, ns, a) :
          mx \in {LookupFailed, LookupFound(<<"mail.a.">>)},
          ns \in {LookupFailed, LookupFound(<<"ns1.a.", "ns2.a.">>)},
          a \in {LookupFailed, LookupFound(<<"192.0.2.1">>)}}

\* ------------------------------------------------------------------------
\* One request, every input
\* ------------------------------------------------------------------------

InitRequests ==
  /\ pc = [r \in Requests |-> "idle"]
  /\ frame = [r \in Requests |-> EmptyDict]
  /\ result = [r \in Requests |-> EmptyDict]
  /\ calls = [r \in Requests |-> <<>>]
  /\ env = [r \in Requests |-> EmptyDict]
  /\ hashseed \in Seeds
  /\ probeIn = EmptyDict
  /\ probeOut = EmptyDict
  /\ probeDone = FALSE

Init == InitRequests

Next ==
  \E r \in {1} :
    \/ Begin(r, Urls)
    \/ Fetch(r, FetchOutcomes)
    \/ Tech(r, TechOutcomes)
    \/ Whois(r, WhoisOutcomes)
    \/ Dns(r, DnsOutcomes)

Spec == Init /\ [][Next]_vars

\* ------------------------------------------------------------------------
\* What a caller can see of a returned value
\* ------------------------------------------------------------------------

Returned(r) == pc[r] = "done"

\* {"error": message} and nothing else
IsErrorObject(v) == DOMAIN v = {"error"}

ReportSections == {"overview", "tech", "security", "dns", "whois", "socials"}

\* a dict with every section of a Report
IsCompleteReport(v) == ReportSections \subseteq DOMAIN v

\* an "error" key at the top of the value or in one of its dict sections
HasErrorField(v) ==
  \/ "error" \in DOMAIN v
  \/ \E sec \in {"overview", "tech", "security", "dns", "whois"} :
       sec \in DOMAIN v /\ "error" \in DOMAIN v[sec]

FetchAnswered(r) == "fetch" \in DOMAIN env[r]
FetchSucceeded(r) == FetchAnswered(r) /\ env[r].fetch.ok
FetchFailed(r) == FetchAnswered(r) /\ ~env[r].fetch.ok

\* C1: every returned value is either exactly {error: message} or a Report
\* with all six sections and no error field anywhere in it.
C1_ErrorOrCleanReport ==
  \A r \in Requests :
    Returned(r) =>
      \/ IsErrorObject(result[r])
      \/ IsCompleteReport(result[r]) /\ ~HasErrorField(result[r])

\* C2: once the page fetch has succeeded the run returns a Report, and a
\* failed tech-stack, WHOIS or DNS probe only empties its own section.
C2_NoAbortAfterFetch ==
  \A r \in Requests :
    Returned(r) /\ FetchSucceeded(r) =>
      /\ IsCompleteReport(result[r])
      /\ ~IsErrorObject(result[r])
      /\ ~env[r].tech.ok => result[r].tech = EmptyDict
      /\ \A t \in {"MX", "NS", "A"} :
           ~env[r].dns.lookup[t].ok => result[r].dns[t] = <<>>

\* C3: a failed page fetch returns {error: message} and no analyzer is ever
\* called in that run: the fetch is the only call made.
C3_FetchFailureIsFatal ==
  \A r \in Requests :
    FetchFailed(r) =>
      /\ Returned(r)
      /\ result[r] = ConnectError(env[r].fetch.exc)
      /\ calls[r] = <<"requests.get">>

C3_Witness ==
  \E r \in Requests : FetchFailed(r) /\ Returned(r)

\* the normalized URL of the posted one has no host: urlparse raises on it or
\* gives an empty netloc
Hostless(url) ==
  LET parsed == UrlParse(TargetUrl(url))
  IN  parsed.raises \/ parsed.netloc = <<>>

InvalidUrlErrors == {ErrInvalidUrl, ErrInvalidUrlFormat}

\* C4: a URL without a host after normalization is answered with the
\* invalid-URL error value as soon as the run starts, and a run that returns
\* that error has made no call to any collaborator.
C4_HostlessRejectedBeforeNetwork ==
  \A r \in Requests :
    /\ pc[r] # "idle" /\ Hostless(env[r].url) =>
         Returned(r) /\ result[r] \in InvalidUrlErrors
    /\ Returned(r) /\ result[r] \in InvalidUrlErrors => calls[r] = <<>>

C4_Witness ==
  \E r \in Requests :
    Returned(r) /\ Hostless(env[r].url) /\ result[r] = ErrInvalidUrl

\* the text names a scheme: a letter, then scheme characters, then "://"
NamesScheme(url) ==
  \E i \in 2..(Len(url) - 2) :
    /\ SubSeq(url, i, i + 2) = <<":", "/", "/">>
    /\ url[1] \in Letters
    /\ \A j \in 1..(i - 1) : url[j] \in SchemeChars

\* C5: the normalized URL is https:// + input exactly when the input names
\* no scheme and is the input itself otherwise; it is the URL fetched and the
\* one reported as overview.url.
C5_PrefixExactlyWhenNoScheme ==
  \A r \in Requests :
    /\ pc[r] \in {"fetch", "tech", "whois", "dns"} =>
         Locals(r).target_url =
           IF NamesScheme(env[r].url) THEN env[r].url
           ELSE HttpsPrefix \o env[r].url
    /\ FetchAnswered(r) => env[r].fetch_url = Locals(r).target_url
    /\ Returned(r) /\ IsCompleteReport(result[r]) =>
         result[r].overview.url = env[r].fetch_url

\* C8: get_dns_records returns exactly the keys MX, NS and A; a type whose
\* lookup failed is an empty list and the others keep their records; every
\* type is looked up whatever happened to the others; and the run returns a
\* Report.
C8_DnsLookupsIndependent ==
  \A r \in Requests :
    "dns" \in DOMAIN env[r] =>
      LET answers == env[r].dns
          records == result[r].dns
      IN  /\ Returned(r) /\ IsCompleteReport(result[r])
          /\ DOMAIN records = {"MX", "NS", "A"}
          /\ \A t \in {"MX", "NS", "A"} :
               /\ records[t] =
                    IF answers.resolver_ok /\ answers.lookup[t].ok
                    THEN answers.lookup[t].records ELSE <<>>
               /\ answers.resolver_ok => InList("resolve " \o t, calls[r])

C8_Witness ==
  \E r \in Requests :
    /\ "dns" \in DOMAIN env[r]
    /\ env[r].dns.resolver_ok
    /\ ~env[r].dns.lookup.MX.ok
    /\ env[r].dns.lookup.NS.ok
    /\ result[r].dns.MX = <<>>
    /\ result[r].dns.NS = env[r].dns.lookup.NS.records

\* ------------------------------------------------------------------------
\* analyze_headers on its own, over many header sets
\* ------------------------------------------------------------------------

\* spellings of header names a server may send
HeaderNamePool ==
  SecurityHeaderNames
  \cup {Lower(StrictTransportSecurity), Lower(ContentSecurityPolicy),
        Lower(XFrameOptions),
        <<"X","-","F","R","A","M","E","-","O","P","T","I","O","N","S">>,
        <<"R","E","F","E","R","R","E","R","-","P","O","L","I","C","Y">>,
        ServerName,
        <<"S","e","t","-","C","o","o","k","i","e">>,
        <<"X","-","F","r","a","m","e">>}

\* response.headers is a case-insensitive dict: no two keys differ by case only
HeaderDicts ==
  {[k \in names |-> "v"] :
     names \in {n \in SUBSET HeaderNamePool :
                  \A k1, k2 \in n : Lower(k1) = Lower(k2) => k1 = k2}}

InitHeaders ==
  /\ pc = [r \in Requests |-> "idle"]
  /\ frame = [r \in Requests |-> EmptyDict]
  /\ result = [r \in Requests |-> EmptyDict]
  /\ calls = [r \in Requests |-> <<>>]
  /\ env = [r \in Requests |-> EmptyDict]
  /\ hashseed = 0
  /\ probeIn \in HeaderDicts
  /\ probeOut = EmptyDict
  /\ probeDone = FALSE

\* line 99: sec_headers, sec_score = analyze_headers(headers)
CallAnalyzeHeaders ==
  /\ ~probeDone
  /\ probeOut' = AnalyzeHeaders(probeIn)
  /\ probeDone' = TRUE
  /\ UNCHANGED <<pc, frame, result, calls, env, hashseed, probeIn>>

NextHeaders == CallAnalyzeHeaders

SpecHeaders == InitHeaders /\ [][NextHeaders]_vars

\* the two names are the same up to the case of their letters, compared
\* character by character
CasePairs == {<<c, UpperToLower[c]>> : c \in DOMAIN UpperToLower}

SameIgnoringCase(a, b) ==
  /\ Len(a) = Len(b)
  /\ \A i \in 1..Len(a) :
       a[i] = b[i] \/ <<a[i], b[i]>> \in CasePairs \/ <<b[i], a[i]>> \in CasePairs

PresentCount(table) == Cardinality({h \in DOMAIN table : table[h] = "Present"})

\* C6: the score is exactly 20 times the number of headers marked Present,
\* hence one of 0, 20, 40, 60, 80, 100: 0 for no header and 100 for all five.
C6_ScoreIsTwentyPerHeader ==
  probeDone =>
    /\ probeOut.score = 20 * PresentCount(probeOut.headers)
    /\ PresentCount(probeOut.headers) \in 0..5
    /\ probeOut.score \in {0, 20, 40, 60, 80, 100}
    /\ DOMAIN probeIn = {} => probeOut.score = 0
    /\ (\A h \in SecurityHeaderNames : h \in DOMAIN probeIn) => probeOut.score = 100

C6_Witness ==
  probeDone /\ PresentCount(probeOut.headers) = 3 /\ probeOut.score = 60

\* the dict without the keys that match no vocabulary header
VocabularyOnly(headers) ==
  LET keep == {k \in DOMAIN headers :
                 \E h \in SecurityHeaderNames : SameIgnoringCase(h, k)}
  IN  [k \in keep |-> headers[k]]

\* C7: the table has exactly the five vocabulary headers as keys, each Present
\* or Missing; a header is Present exactly when some response header name
\* equals it ignoring case; headers outside the vocabulary change neither the
\* table nor the score.
C7_TableIsCaseInsensitivePresence ==
  probeDone =>
    /\ DOMAIN probeOut.headers = SecurityHeaderNames
    /\ \A h \in SecurityHeaderNames :
         /\ probeOut.headers[h] \in {"Present", "Missing"}
         /\ probeOut.headers[h] = "Present" <=>
              \E k \in DOMAIN probeIn : SameIgnoringCase(h, k)
    /\ probeOut = AnalyzeHeaders(VocabularyOnly(probeIn))

C7_Witness ==
  /\ probeDone
  /\ XFrameOptions \notin DOMAIN probeIn
  /\ probeOut.headers[XFrameOptions] = "Present"
  /\ ServerName \in DOMAIN probeIn
  /\ probeOut.headers[ReferrerPolicy] = "Missing"

\* ------------------------------------------------------------------------
\* Several requests at once, in every interleaving of their steps
\* (analyze_route is a sync route: each request runs on its own worker thread)
\* ------------------------------------------------------------------------

RunUrls == {<<"a">>, <<"h","t","t","p",":","/","/","b">>}

RunFetchOutcomes ==
  FetchFailures
  \cup {Response(200, HeadersSome, PageSocial, e) : e \in {1, MaxElapsed}}
  \cup {Response(404, HeadersNone, PagePlain, 1)}

RunTechOutcomes == {[ok |-> TRUE, value |-> [web_servers |-> <<"Nginx">>]]}

RunWhoisOutcomes ==
  {[ok |-> TRUE,
    w |-> [registrar |-> "Example Registrar", org |-> "Example Org",
           creation_date |-> [list |-> FALSE, value |-> "1995-08-14"],
           country |-> "US"]]}

RunDnsOutcomes ==
  {DnsAnswers(LookupFailed, LookupFound(<<"ns1.a.">>), LookupFound(<<"192.0.2.1">>))}

InitRuns == InitRequests

\* lines 475-476: the server process is started anew between two runs, and
\* the new interpreter draws its own hash seed
Restart ==
  /\ \A r \in Requests : pc[r] \in {"idle", "done"}
  /\ \E r \in Requests : pc[r] = "done"
  /\ \E seed \in Seeds \ {hashseed} : hashseed' = seed
  /\ UNCHANGED <<pc, frame, result, calls, env, probeIn, probeOut, probeDone>>

NextRuns ==
  \/ Restart
  \/ \E r \in Requests :
       \/ Begin(r, RunUrls)
       \/ Fetch(r, RunFetchOutcomes)
       \/ Tech(r, RunTechOutcomes)
       \/ Whois(r, RunWhoisOutcomes)
       \/ Dns(r, RunDnsOutcomes)

SpecRuns == InitRuns /\ [][NextRuns]_vars

\* a returned value with the elapsed-time field blanked
WithoutTtfb(v) ==
  IF IsCompleteReport(v) THEN [v EXCEPT !.overview.ttfb_ms = 0] ELSE v

\* the posted URL and the collaborators' answers: env without the hash seed
\* of the serving process and with the time the fetch took blanked
Answers(e) ==
  LET a == [k \in DOMAIN e \ {"hashseed"} |-> e[k]]
  IN  IF "fetch" \in DOMAIN a /\ a.fetch.ok
      THEN [a EXCEPT !.fetch.elapsed = 0] ELSE a

\* C9: two runs on the same URL with the same answers from every collaborator
\* return the same value in every field but ttfb_ms, the socials list with
\* its order included.
C9_SameAnswersSameReport ==
  \A r1, r2 \in Requests :
    /\ Returned(r1) /\ Returned(r2)
    /\ Answers(env[r1]) = Answers(env[r2])
    => WithoutTtfb(result[r1]) = WithoutTtfb(result[r2])

\* analyze_logic run from start to end on one request's URL and answers, as
\* far as that run got
RunAlone(e) ==
  LET n == NormalizeStage(e.url)
  IN  IF n.returned THEN n.result
      ELSE LET fetched == FetchStage(n.frame, e.fetch)
           IN  IF fetched.returned THEN fetched.result
               ELSE Report([tech_stack |-> TechStage(e.tech),
                            whois_data |-> WhoisStage(e.whois),
                            dns_data |-> GetDnsRecords(e.dns)] @@ fetched.frame,
                           e.hashseed)

\* C10: whatever the interleaving, a request's result is the one it gets
\* running alone on its own URL and its own collaborators' answers, and its
\* locals hold only what its own run bound.
C10_NoSharedState ==
  \A r \in Requests :
    /\ Returned(r) => result[r] = RunAlone(env[r])
    /\ pc[r] = "idle" => frame[r] = EmptyDict
    /\ pc[r] \in {"fetch", "tech", "whois", "dns"} => "url" \in DOMAIN frame[r]
    /\ "url" \in DOMAIN frame[r] => frame[r].url = env[r].url

C10_Witness ==
  \E r1, r2 \in Requests :
    /\ Returned(r1) /\ Returned(r2)
    /\ IsCompleteReport(result[r1]) /\ IsCompleteReport(result[r2])
    /\ result[r1].overview.domain # result[r2].overview.domain
    /\ result[r1].overview.title # result[r2].overview.title

\* ------------------------------------------------------------------------
\* The order of the stages
\* ------------------------------------------------------------------------

\* the stage a logged call belongs to: 1 fetch, 2 parse, 3 tech stack,
\* 4 WHOIS, 5 DNS
StageOf(call) ==
  CASE call = "requests.get" -> 1
    [] call \in {"analyze_headers", "BeautifulSoup"} -> 2
    [] call \in {"builtwith.parse", "urlopen"} -> 3
    [] call = "whois.whois" -> 4
    [] OTHER -> 5

\* the calls that download the target page
PageDownloads == {"requests.get", "urlopen"}

Count(list, S) == Cardinality({i \in 1..Len(list) : list[i] \in S})

\* the stages are entered in the order fetch, parse, tech stack, WHOIS, DNS and
\* no call is made twice; the report is returned only after the DNS stage
StagesInOrderOnce(r) ==
  /\ \A i, j \in 1..Len(calls[r]) :
       i < j => /\ StageOf(calls[r][i]) <= StageOf(calls[r][j])
                /\ calls[r][i] # calls[r][j]
  /\ Returned(r) /\ IsCompleteReport(result[r]) =>
       /\ calls[r] # <<>>
       /\ StageOf(calls[r][Len(calls[r])]) = 5
       /\ {StageOf(calls[r][i]) : i \in 1..Len(calls[r])} = 1..5

\* the part of C11 about the order: holds in every run
StagesInOrderOnceAlways == \A r \in Requests : StagesInOrderOnce(r)

\* C11: in every run the stages occur in the order fetch, parse, analyzers,
\* report; each is attempted at most once and never again after a failure;
\* and a request whose URL is accepted downloads the target page exactly once.
C11_SinglePassOneFetch ==
  \A r \in Requests :
    /\ StagesInOrderOnce(r)
    /\ FetchAnswered(r) => Count(calls[r], PageDownloads) = 1

\* ------------------------------------------------------------------------
\* The taint-pattern scan result
\* ------------------------------------------------------------------------

\* the confidence the claim derives from the per-role counts, first match wins
ClaimedConfidence(counts) ==
  IF counts.sources > 0 /\ counts.gadgets > 0 /\ counts.sinks > 0 THEN "High"
  ELSE IF counts.sources > 0 /\ (counts.gadgets > 0 \/ counts.sinks > 0)
  THEN "Medium"
  ELSE "Low"

CountCategory(findings, category) ==
  Cardinality({i \in 1..Len(findings) : findings[i].category = category})

\* v is a ScanResult whose counts are those of its findings and whose
\* confidence follows from the counts
IsScanResult(v) ==
  /\ {"confidence", "counts", "findings"} \subseteq DOMAIN v
  /\ v.counts = [sources |-> CountCategory(v.findings, "Source"),
                 gadgets |-> CountCategory(v.findings, "Gadget"),
                 sinks |-> CountCategory(v.findings, "Sink")]
  /\ v.confidence = ClaimedConfidence(v.counts)

\* C12: every Report carries a ScanResult whose counts are the numbers of
\* findings per category and whose confidence is High, Medium or Low as the
\* counts say.
C12_ReportCarriesScanResult ==
  \A r \in Requests :
    Returned(r) /\ IsCompleteReport(result[r]) =>
      \E sec \in DOMAIN result[r] \ {"socials"} : IsScanResult(result[r][sec])

\* ------------------------------------------------------------------------
\* The social links on their own, over many pages
\* ------------------------------------------------------------------------

HrefFacebook == <<"/","/","f","a","c","e","b","o","o","k",".","c","o","m","/","c">>
HrefLinkedin == <<"/","/","l","i","n","k","e","d","i","n",".","c","o","m","/","e">>
HrefInstagram == <<"/","/","i","n","s","t","a","g","r","a","m",".","c","o","m","/","f">>

\* <a> elements a page may hold; the last one has no href
AnchorPool ==
  {[href |-> HrefGithub], [href |-> HrefGitHubMixed], [href |-> HrefGithubUpper],
   [href |-> HrefTwitter], [href |-> HrefAbout], [name |-> "top"]}

\* a page with seven distinct social links, three of them differing by case
ManySocials ==
  <<[href |-> HrefGithub], [href |-> HrefTwitter], [href |-> HrefFacebook],
    [href |-> HrefLinkedin], [href |-> HrefInstagram],
    [href |-> HrefGitHubMixed], [href |-> HrefGithubUpper]>>

\* soup.find_all('a'): every page of up to MaxAnchors pool elements, and the
\* long page in three orders
AnchorLists ==
  UNION {[1..n -> AnchorPool] : n \in 0..MaxAnchors}
  \cup {ManySocials, Reverse(ManySocials), RotateLeft(ManySocials, 3)}

InitSocials ==
  /\ pc = [r \in Requests |-> "idle"]
  /\ frame = [r \in Requests |-> EmptyDict]
  /\ result = [r \in Requests |-> EmptyDict]
  /\ calls = [r \in Requests |-> <<>>]
  /\ env = [r \in Requests |-> EmptyDict]
  /\ hashseed \in Seeds
  /\ probeIn \in AnchorLists
  /\ probeOut = <<>>
  /\ probeDone = FALSE

\* lines 107-113 and 155: the socials field of the report for the anchors
\* probeIn
CallCollectSocials ==
  /\ ~probeDone
  /\ probeOut' = ReportSocials(hashseed, CollectSocials(probeIn, <<>>))
  /\ probeDone' = TRUE
  /\ UNCHANGED <<pc, frame, result, calls, env, hashseed, probeIn>>

NextSocials == CallCollectSocials

SpecSocials == InitSocials /\ [][NextSocials]_vars

\* the hrefs of the anchors whose lower-cased href holds a social domain
SocialHrefs(anchors) ==
  {anchors[i].href :
     i \in {j \in 1..Len(anchors) :
              /\ "href" \in DOMAIN anchors[j]
              /\ \E x \in SocialDomains : Contains(Lower(anchors[j].href), x)}}

\* at most 5 entries, no two equal, each the href of a social anchor
SocialsWellFormed(anchors, socials) ==
  /\ Len(socials) <= 5
  /\ \A i, j \in 1..Len(socials) : i # j => socials[i] # socials[j]
  /\ \A i \in 1..Len(socials) : socials[i] \in SocialHrefs(anchors)

\* C13 as stated: the socials list has at most 5 entries, no two equal, each
\* the href of a social anchor, and with at most 5 distinct social hrefs on the
\* page every one of them is in the list.
C13_SocialsComplete ==
  probeDone =>
    /\ SocialsWellFormed(probeIn, probeOut)
    /\ Cardinality(SocialHrefs(probeIn)) <= 5 =>
         \A h \in SocialHrefs(probeIn) : InList(h, probeOut)

\* C13 as amended: the socials list has at most 5 entries, no two equal, each
\* the href of a social anchor, and with at most 5 distinct social hrefs on the
\* page every one of them is in the list itself or in its lower-cased form.
C13_SocialsCompleteUpToCase ==
  probeDone =>
    /\ SocialsWellFormed(probeIn, probeOut)
    /\ Cardinality(SocialHrefs(probeIn)) <= 5 =>
         \A h \in SocialHrefs(probeIn) :
           InList(h, probeOut) \/ InList(Lower(h), probeOut)

\* a social href left out because its lower-cased form was already listed
C13_Witness ==
  /\ probeDone
  /\ Cardinality(SocialHrefs(probeIn)) <= 5
  /\ \E h \in SocialHrefs(probeIn) :
       ~InList(h, probeOut) /\ InList(Lower(h), probeOut)

====
